---- MODULE Spec2Model ----
(***************************************************************************)
(* A model of scripts/fetch_events.py: the fetch / filter / normalize /    *)
(* write pipeline of main(), run once per process, several processes one   *)
(* after the other against the same data/ directory.                       *)
(*                                                                         *)
(* Strings are sequences of one-character strings.  A JSON value or an     *)
(* environment variable is a record [t, s]: t is "absent" (no such key),   *)
(* "null" (None) or "str" (the string s).  A nested JSON object is a tag   *)
(* "absent" / "null" / "obj" next to the fields it holds.                  *)
(***************************************************************************)
EXTENDS Integers, Sequences, FiniteSets, TLC

\* Longest upstream events list drawn from the venue records, in a batch of one run.
MaxEvents == 3
\* Longest upstream events list when several runs follow each other.
MaxRunEvents == 2
\* Number of processes run one after the other.
MaxRuns == 3

----------------------------------------------------------------------------
\* Python values

Absent == [t |-> "absent", s |-> <<>>]
Null == [t |-> "null", s |-> <<>>]
Str(s) == [t |-> "str", s |-> s]

\* bool(v) of a string or None
Truthy(v) == v.t = "str" /\ v.s # <<>>
\* d.get(key, default): the default only when the key is absent
Get(v, default) == IF v.t = "absent" THEN default ELSE v
\* (v or ""), for v a string or None
OrEmpty(v) == IF Truthy(v) THEN v.s ELSE <<>>
\* f"{v}" and str(v)
Format(v) == IF v.t = "str" THEN v.s ELSE <<"N", "o", "n", "e">>

Min(a, b) == IF a < b THEN a ELSE b

----------------------------------------------------------------------------
\* Characters and the str methods the script uses

UpperCase == {"A", "B", "E", "H", "I", "N", "T", "Z"}
LowerCase == {"a", "b", "e", "h", "i", "k", "n", "o", "t", "v", "z"}
Digits == {"0", "1", "2", "3", "4", "5", "6", "7", "8", "9"}

IsSpace(c) == c \in {" ", "\t"}
\* \w : letters, digits and the underscore
IsWord(c) == c \in UpperCase \cup LowerCase \cup Digits \cup {"_"}

LowerChar(c) ==
    CASE c = "A" -> "a" [] c = "B" -> "b" [] c = "E" -> "e" [] c = "H" -> "h"
      [] c = "I" -> "i" [] c = "N" -> "n" [] c = "T" -> "t" [] c = "Z" -> "z"
      [] OTHER -> c

lower(s) == [k \in DOMAIN s |-> LowerChar(s[k])]

RECURSIVE lstrip(_)
lstrip(s) == IF s # <<>> /\ IsSpace(Head(s)) THEN lstrip(Tail(s)) ELSE s

RECURSIVE rstrip(_)
rstrip(s) ==
    IF s # <<>> /\ IsSpace(s[Len(s)]) THEN rstrip(SubSeq(s, 1, Len(s) - 1)) ELSE s

\* str.strip()
strip(s) == rstrip(lstrip(s))

RECURSIVE lstripHyphen(_)
lstripHyphen(s) == IF s # <<>> /\ Head(s) = "-" THEN lstripHyphen(Tail(s)) ELSE s

RECURSIVE rstripHyphen(_)
rstripHyphen(s) ==
    IF s # <<>> /\ s[Len(s)] = "-" THEN rstripHyphen(SubSeq(s, 1, Len(s) - 1)) ELSE s

\* str.strip("-")
stripHyphen(s) == rstripHyphen(lstripHyphen(s))

\* s[-n:]
LastN(s, n) == SubSeq(s, Len(s) - Min(n, Len(s)) + 1, Len(s))
\* s[:n]
FirstN(s, n) == SubSeq(s, 1, Min(n, Len(s)))

DigitVal(c) ==
    CASE c = "0" -> 0 [] c = "1" -> 1 [] c = "2" -> 2 [] c = "3" -> 3 [] c = "4" -> 4
      [] c = "5" -> 5 [] c = "6" -> 6 [] c = "7" -> 7 [] c = "8" -> 8 [] c = "9" -> 9

\* int(s) of a string of decimal digits
RECURSIVE int(_)
int(s) == IF s = <<>> THEN 0 ELSE 10 * int(SubSeq(s, 1, Len(s) - 1)) + DigitVal(s[Len(s)])

----------------------------------------------------------------------------
\* slugify

SlugMax == 90

KeepInSlug(c) == IsWord(c) \/ IsSpace(c) \/ c = "-"
\* re.sub(r"[^\w\s-]", "", text)
DropPunctuation(s) == SelectSeq(s, KeepInSlug)

IsSeparator(c) == IsSpace(c) \/ c = "_" \/ c = "-"

RECURSIVE DropSeparators(_)
DropSeparators(s) ==
    IF s # <<>> /\ IsSeparator(Head(s)) THEN DropSeparators(Tail(s)) ELSE s

\* re.sub(r"[\s_-]+", "-", text)
RECURSIVE CollapseSeparators(_)
CollapseSeparators(s) ==
    IF s = <<>> THEN <<>>
    ELSE IF IsSeparator(Head(s))
         THEN <<"-">> \o CollapseSeparators(DropSeparators(s))
         ELSE <<Head(s)>> \o CollapseSeparators(Tail(s))

DefaultSlug == <<"e", "v", "e", "n", "t">>

\* the mutant: no "event" fallback for a text that slugifies to nothing
slugify_NoFallback(text) ==
    FirstN(stripHyphen(CollapseSeparators(DropPunctuation(strip(lower(text))))), SlugMax)

slugify(text) ==
    LET cut == FirstN(stripHyphen(CollapseSeparators(DropPunctuation(strip(lower(text))))),
                      SlugMax)
    IN  IF cut # <<>> THEN cut ELSE DefaultSlug

----------------------------------------------------------------------------
\* Module-level configuration, read from the environment when the process starts

\* the default of RADIUS_MILES, "35"
DefaultRadius == <<"3", "5">>
\* the default of DAYS_AHEAD, "180"
DefaultDays == <<"1", "8", "0">>
\* the default of INDY_LAT and of INDY_LON, in units of 0.0001 degree
LAT == 397684
LON == 0 - 861581

\* the mutant: the key is not stripped
API_KEY_NoStrip(environ) == OrEmpty(environ.key)

\* API_KEY = (os.getenv("TICKETMASTER_API_KEY") or "").strip()
API_KEY(environ) == strip(OrEmpty(environ.key))

\* RADIUS = int(os.getenv("RADIUS_MILES", "35"))
RADIUS(environ) == int(Get(environ.radius, Str(DefaultRadius)).s)

\* DAYS = int(os.getenv("DAYS_AHEAD", "180")), the variable never set
DAYS == int(DefaultDays)

\* datetime.now() counts ticks of half a second; tm_utc_z drops the fraction
TicksPerSecond == 2
tm_utc_z(dt) == dt \div TicksPerSecond

----------------------------------------------------------------------------
\* load_allowlist: the file is absent, is not JSON, or holds a list of strings

load_allowlist(file) ==
    IF file.t = "list"
    THEN {strip(file.items[k]) : k \in {j \in DOMAIN file.items : strip(file.items[j]) # <<>>}}
    ELSE {}

----------------------------------------------------------------------------
\* The body of the loop of main(), one raw event record e at a time

\* e.get("_embedded", {}) is None: None.get raises AttributeError
EmbeddedRaises(e) == e.emb = "null"

\* e.get("_embedded", {}).get("venues", []); None and [] are both falsy
Venues(e) == IF e.emb = "obj" /\ e.venues = "list" THEN e.venueList ELSE <<>>

\* venue_obj.get("name", "") is None: None.strip raises AttributeError
VenueNameRaises(venue_obj) == venue_obj.name.t = "null"

VenueName(venue_obj) == strip(Get(venue_obj.name, Str(<<>>)).s)

\* the mutant: the emptiness test of the allowlist is inverted
Excluded_Inverted(allowlist, venue_name) == allowlist = {} /\ venue_name \notin allowlist

\* the mutant: the emptiness test of the allowlist is missing
Excluded_Always(allowlist, venue_name) == venue_name \notin allowlist

\* if allowlist and venue_name not in allowlist: continue
Excluded(allowlist, venue_name) == allowlist # {} /\ venue_name \notin allowlist

\* a or b, for two strings
PyOr(a, b) == IF a # <<>> THEN a ELSE b

\* (e.get("dates", {}) or {}).get("start", {}) or {}, then .get(field, "") or ""
StartField(e, field) ==
    LET v == IF e.dates = "obj" /\ e.start = "obj" THEN e[field] ELSE Absent
    IN  OrEmpty(Get(v, Str(<<>>)))

\* the mutant: the UTC timestamp is preferred to the local date, as dateLocal does
DateDisplay_UtcFirst(local_date, local_time, date_time_utc) ==
    IF local_date # <<>> /\ local_time # <<>>
    THEN local_date \o <<" ">> \o local_time
    ELSE PyOr(PyOr(date_time_utc, local_date), <<>>)

DateDisplay(local_date, local_time, date_time_utc) ==
    IF local_date # <<>> /\ local_time # <<>>
    THEN local_date \o <<" ">> \o local_time
    ELSE PyOr(PyOr(local_date, date_time_utc), <<>>)

\* (venue_obj.get("city") or {}).get("name", "") or ""
City(venue_obj) ==
    OrEmpty(Get(IF venue_obj.city = "obj" THEN venue_obj.cityName ELSE Absent, Str(<<>>)))

\* (venue_obj.get("state") or {}).get("stateCode", "") or ""
State(venue_obj) ==
    OrEmpty(Get(IF venue_obj.state = "obj" THEN venue_obj.stateCode ELSE Absent, Str(<<>>)))

\* str(e.get("id", "") or "")
EventId(e) == Format(Str(OrEmpty(Get(e.id, Str(<<>>)))))

IdSuffix == 6

\* slug_base, then the last six characters of the id when there is one
Slug(name, venue_name, local_date, event_id) ==
    LET slug_base == slugify(Format(name) \o <<"-">> \o venue_name \o <<"-">> \o local_date)
    IN  IF event_id # <<>> THEN slug_base \o <<"-">> \o LastN(event_id, IdSuffix)
        ELSE slug_base

Ticketmaster == <<"t", "i", "c", "k", "e", "t", "m", "a", "s", "t", "e", "r">>

\* the dict appended to events_out
NormalizedEvent(e, venue_obj, venue_name) ==
    LET name == Get(e.name, Str(<<"E", "v", "e", "n", "t">>))
        local_date == StartField(e, "localDate")
        local_time == StartField(e, "localTime")
        date_time_utc == StartField(e, "dateTime")
        event_id == EventId(e)
    IN  [id |-> event_id,
         name |-> name,
         url |-> OrEmpty(Get(e.url, Str(<<>>))),
         dateLocal |-> PyOr(date_time_utc, local_date),
         dateDisplay |-> DateDisplay(local_date, local_time, date_time_utc),
         city |-> City(venue_obj),
         state |-> State(venue_obj),
         venueName |-> venue_name,
         venueUrl |-> Get(venue_obj.url, Null),
         venueId |-> Get(venue_obj.id, Null),
         slug |-> Slug(name, venue_name, local_date, event_id),
         source |-> Ticketmaster]

\* the mutant: the new event is put in front
list_append_Front(list, x) == <<x>> \o list

\* events_out.append(x)
list_append(list, x) == Append(list, x)

\* raw.get("_embedded", {}).get("events", []): None.get raises AttributeError,
\* and iterating over None raises TypeError
EventsRaises(response) ==
    response.emb = "null" \/ (response.emb = "obj" /\ response.events = "null")

Events(response) ==
    IF response.emb = "obj" /\ response.events = "list" THEN response.list ELSE <<>>

MarketLabel == "Indianapolis, IN metro"

\* output = {...}
OutputDocument(environ, now, events) ==
    [generatedAt |-> tm_utc_z(now),
     market |-> [label |-> MarketLabel, lat |-> LAT, lon |-> LON,
                 radiusMiles |-> RADIUS(environ), daysAhead |-> DAYS],
     count |-> Len(events),
     events |-> events]

----------------------------------------------------------------------------
\* Inputs: environments, allowlist files, upstream responses

sA == <<"A">>
sB == <<"B">>
LocalDate == <<"0", "5", "-", "0", "1">>
LocalTime == <<"1", "9", ":", "0", "0">>
UtcDateTime == <<"0", "5", "-", "0", "1", "T", "2", "3", "Z">>

KeyValues == {Absent, Str(<<>>), Str(<<" ", "\t">>), Str(<<"k", " ">>)}
RadiusValues == {Absent, Str(<<"5", "0">>)}
Environments == [key : KeyValues, radius : RadiusValues]

AllowFile(t, items) == [t |-> t, items |-> items]
AllowFiles ==
    {AllowFile("absent", <<>>), AllowFile("malformed", <<>>),
     AllowFile("list", <<<<>>, <<" ">>>>),
     AllowFile("list", <<<<" ", "A", " ">>, <<>>>>),
     AllowFile("list", <<sA, sB>>)}

BaseVenue ==
    [name |-> Str(sA), city |-> "obj", cityName |-> Str(<<"I", "n", "!">>),
     state |-> "obj", stateCode |-> Str(<<"I", "N">>),
     url |-> Str(<<"v">>), id |-> Str(<<"v", "1">>)]

BaseEvent ==
    [emb |-> "obj", venues |-> "list", venueList |-> <<BaseVenue>>,
     name |-> Str(<<"H", "i">>), dates |-> "obj", start |-> "obj",
     localDate |-> Str(LocalDate), localTime |-> Str(LocalTime),
     dateTime |-> Str(UtcDateTime), url |-> Str(<<"t">>), id |-> Str(<<"a", "1">>)]

Named(venue_name) == [BaseVenue EXCEPT !.name = venue_name]
AtVenues(venues, id) == [BaseEvent EXCEPT !.venueList = venues, !.id = Str(id)]

EventA == AtVenues(<<Named(Str(sA))>>, <<"a", "1">>)
EventB == AtVenues(<<Named(Str(sB))>>, <<"b", "1">>)
EventNullVenueName == AtVenues(<<Named(Null)>>, <<"n", "1">>)

\* records that differ in their embedded venues
VenueRecords ==
    {EventA, EventB, EventNullVenueName,
     AtVenues(<<Named(Str(<<"\t", "A", " ">>))>>, <<"a", "2">>),
     AtVenues(<<Named(Absent)>>, <<"n", "2">>),
     AtVenues(<<Named(Str(sB)), Named(Str(sA))>>, <<"b", "2">>),
     [BaseEvent EXCEPT !.emb = "absent"],
     [BaseEvent EXCEPT !.emb = "null"]}

Values(s) == {Absent, Null, Str(<<>>), Str(s)}
Tags == {"absent", "null", "obj"}

\* records that differ in the id, the name, the local date and the venue name
SlugRecords ==
    {[BaseEvent EXCEPT !.id = id, !.name = name, !.localDate = local_date,
                       !.venueList = <<Named(venue_name)>>] :
        id \in Values(<<"a", "b", "1", "2", "3", "4", "5", "6">>),
        name \in Values(<<"H", "i", "!", " ", "_", "B">>),
        local_date \in {Absent, Str(LocalDate)},
        venue_name \in {Absent, Str(<<"!">>), Str(sA)}}

\* records that differ in dates, start and the three date fields
DateRecords ==
    {[BaseEvent EXCEPT !.localDate = local_date, !.localTime = local_time,
                       !.dateTime = date_time_utc] :
        local_date \in Values(LocalDate), local_time \in Values(LocalTime),
        date_time_utc \in Values(UtcDateTime)}
    \cup {[BaseEvent EXCEPT !.dates = t] : t \in Tags}
    \cup {[BaseEvent EXCEPT !.start = t] : t \in Tags}

\* records that differ in one optional field
OptionalRecords ==
    {[BaseEvent EXCEPT !.url = v] : v \in Values(<<"t">>)}
    \cup {[BaseEvent EXCEPT !.venues = t] : t \in {"absent", "null"}}
    \cup {AtVenues(<<>>, <<"n", "3">>)}
    \cup {[BaseEvent EXCEPT !.venueList = <<[BaseVenue EXCEPT !.city = t, !.cityName = v]>>] :
            t \in Tags, v \in Values(<<"I">>)}
    \cup {[BaseEvent EXCEPT !.venueList = <<[BaseVenue EXCEPT !.state = t, !.stateCode = v]>>] :
            t \in Tags, v \in Values(<<"I", "N">>)}
    \cup {[BaseEvent EXCEPT !.venueList = <<[BaseVenue EXCEPT !.url = v, !.id = w]>>] :
            v \in Values(<<"v">>), w \in Values(<<"v", "1">>)}

Response(emb, events, list) == [emb |-> emb, events |-> events, list |-> list]
NoResponse == Response("absent", "absent", <<>>)

\* responses without a usable events list
Containers ==
    {Response("absent", "absent", <<>>), Response("null", "absent", <<>>),
     Response("obj", "absent", <<>>), Response("obj", "null", <<>>)}

SeqsUpTo(S, n) == UNION {[1..k -> S] : k \in 0..n}

\* what upstream may answer in a batch of one run
BatchPayloads ==
    Containers
    \cup {Response("obj", "list", l) : l \in SeqsUpTo(VenueRecords, MaxEvents)}
    \cup {Response("obj", "list", <<e>>) : e \in SlugRecords \cup DateRecords \cup OptionalRecords}

\* what upstream may answer when several runs follow each other
RunPayloads ==
    Containers
    \cup {Response("obj", "list", l) : l \in SeqsUpTo({EventA, EventB}, MaxRunEvents)}
    \cup {Response("obj", "list", <<EventNullVenueName>>)}

\* how a request may fail: an HTTP error status, a timeout, another transport error,
\* a body that is not JSON
FetchFailures == {"HTTPError", "timeout", "URLError", "JSONDecodeError"}

----------------------------------------------------------------------------
\* The state

VARIABLES
    pc,            \* where main() is: "start", "load", "fetch", "loop", "done", "failed"
    environ,       \* os.environ of the process
    allowFile,     \* data/venues_allowlist.json
    outFile,       \* data/events.json: <<>> when there is none, else <<document>>
    clock,         \* datetime.now(), in ticks; one tick passes between two runs
    allowlist,     \* main's allowlist
    raw,           \* main's raw
    i,             \* the number of records the for loop has taken
    events_out,    \* main's events_out
    httpRequests,  \* the requests urlopen has sent in this run
    failure,       \* the exception that ended the run, "" when none
    origin,        \* history: for each event of events_out, the index of its record
    fileBefore,    \* history: outFile when the run started
    inputsBefore   \* history: <<the inputs of the run that wrote fileBefore>>

vars == <<pc, environ, allowFile, outFile, clock, allowlist, raw, i, events_out,
          httpRequests, failure, origin, fileBefore, inputsBefore>>

\* what the run works on and never changes
world == <<environ, allowFile, clock, fileBefore, inputsBefore>>

\* what the output document of a run is computed from
Inputs == [raw |-> raw, allowlist |-> allowlist, radius |-> RADIUS(environ)]

Init ==
    /\ pc = "start"
    /\ environ \in Environments
    /\ allowFile \in AllowFiles
    /\ outFile = <<>>
    /\ clock = 1
    /\ allowlist = {}
    /\ raw = NoResponse
    /\ i = 0
    /\ events_out = <<>>
    /\ httpRequests = 0
    /\ failure = ""
    /\ origin = <<>>
    /\ fileBefore = <<>>
    /\ inputsBefore = <<>>

Raise(exception) ==
    /\ pc' = "failed"
    /\ failure' = exception

\* if not API_KEY: raise RuntimeError("Missing TICKETMASTER_API_KEY ...")
CheckKey ==
    /\ pc = "start"
    /\ IF API_KEY(environ) = <<>>
       THEN Raise("RuntimeError: missing key")
       ELSE pc' = "load" /\ failure' = failure
    /\ UNCHANGED <<world, outFile, allowlist, raw, i, events_out, httpRequests, origin>>

\* allowlist = load_allowlist()
LoadAllowlist ==
    /\ pc = "load"
    /\ allowlist' = load_allowlist(allowFile)
    /\ pc' = "fetch"
    /\ UNCHANGED <<world, outFile, raw, i, events_out, httpRequests, failure, origin>>

\* raw = fetch(), the request answered with a JSON object; events_out = []
FetchOk(payloads) ==
    /\ pc = "fetch"
    /\ \E response \in payloads : raw' = response
    /\ httpRequests' = httpRequests + 1
    /\ events_out' = <<>>
    /\ origin' = <<>>
    /\ i' = 0
    /\ pc' = "loop"
    /\ UNCHANGED <<world, outFile, allowlist, failure>>

\* the mutant: a failed request is sent again
FetchFails_Retry ==
    /\ pc = "fetch"
    /\ httpRequests < 2
    /\ httpRequests' = httpRequests + 1
    /\ \/ UNCHANGED <<pc, failure>>
       \/ \E exception \in FetchFailures : Raise(exception)
    /\ UNCHANGED <<world, outFile, allowlist, raw, i, events_out, origin>>

\* raw = fetch(), the request failing: fetch raises RuntimeError for an HTTPError
\* and lets every other exception through; main catches nothing
FetchFails ==
    /\ pc = "fetch"
    /\ httpRequests' = httpRequests + 1
    /\ \E exception \in FetchFailures : Raise(exception)
    /\ UNCHANGED <<world, outFile, allowlist, raw, i, events_out, origin>>

\* for e in raw.get("_embedded", {}).get("events", []), the expression raising
EventsRaise ==
    /\ pc = "loop"
    /\ EventsRaises(raw)
    /\ Raise("AttributeError or TypeError: response")
    /\ UNCHANGED <<world, outFile, allowlist, raw, i, events_out, httpRequests, origin>>

HasNext == pc = "loop" /\ ~EventsRaises(raw) /\ i < Len(Events(raw))
NextRecord == Events(raw)[i + 1]

RecordRaises(e) ==
    IF EmbeddedRaises(e) \/ Venues(e) = <<>> THEN EmbeddedRaises(e)
    ELSE VenueNameRaises(Venues(e)[1])
RecordSkipped(e) ==
    IF Venues(e) = <<>> THEN TRUE ELSE Excluded(allowlist, VenueName(Venues(e)[1]))

\* one turn of the loop that raises: the run ends with the traceback
LoopRaise ==
    /\ HasNext
    /\ RecordRaises(NextRecord)
    /\ Raise("AttributeError: record")
    /\ UNCHANGED <<world, outFile, allowlist, raw, i, events_out, httpRequests, origin>>

\* one turn of the loop that ends in continue
LoopSkip ==
    /\ HasNext
    /\ ~RecordRaises(NextRecord)
    /\ RecordSkipped(NextRecord)
    /\ i' = i + 1
    /\ UNCHANGED <<world, pc, outFile, allowlist, raw, events_out, httpRequests, failure, origin>>

\* one turn of the loop that ends in events_out.append
LoopAppend ==
    /\ HasNext
    /\ ~RecordRaises(NextRecord)
    /\ ~RecordSkipped(NextRecord)
    /\ \E venue_obj \in {Venues(NextRecord)[1]} :
           events_out' =
               list_append(events_out, NormalizedEvent(NextRecord, venue_obj, VenueName(venue_obj)))
    /\ origin' = list_append(origin, i + 1)
    /\ i' = i + 1
    /\ UNCHANGED <<world, pc, outFile, allowlist, raw, httpRequests, failure>>

LoopDone == pc = "loop" /\ ~EventsRaises(raw) /\ i = Len(Events(raw))

\* the mutant: count is the number of records read
Write_CountRead ==
    /\ LoopDone
    /\ outFile' = <<[OutputDocument(environ, clock, events_out) EXCEPT !.count = i]>>
    /\ pc' = "done"
    /\ UNCHANGED <<world, allowlist, raw, i, events_out, httpRequests, failure, origin>>

\* the mutant: the events are added to those of the file already there
Write_Merged ==
    /\ LoopDone
    /\ LET old == IF outFile = <<>> THEN <<>> ELSE outFile[1].events
       IN  outFile' = <<OutputDocument(environ, clock, old \o events_out)>>
    /\ pc' = "done"
    /\ UNCHANGED <<world, allowlist, raw, i, events_out, httpRequests, failure, origin>>

\* after the loop: output = {...}; open(OUT_FILE, "w"); json.dump
Write ==
    /\ LoopDone
    /\ outFile' = <<OutputDocument(environ, clock, events_out)>>
    /\ pc' = "done"
    /\ UNCHANGED <<world, allowlist, raw, i, events_out, httpRequests, failure, origin>>

\* the process has ended; later the script is started again, in an environment and
\* with an allowlist file that may have changed
NewRun ==
    /\ pc \in {"done", "failed"}
    /\ clock < MaxRuns
    /\ clock' = clock + 1
    /\ environ' \in Environments
    /\ allowFile' \in AllowFiles
    /\ fileBefore' = outFile
    /\ inputsBefore' = IF pc = "done" THEN <<Inputs>> ELSE inputsBefore
    /\ pc' = "start"
    /\ allowlist' = {}
    /\ raw' = NoResponse
    /\ i' = 0
    /\ events_out' = <<>>
    /\ httpRequests' = 0
    /\ failure' = ""
    /\ origin' = <<>>
    /\ UNCHANGED outFile

Steps == CheckKey \/ LoadAllowlist \/ FetchFails \/ EventsRaise \/ LoopRaise \/ LoopSkip
            \/ LoopAppend \/ Write

\* runs one after the other
Next == Steps \/ FetchOk(RunPayloads) \/ NewRun
Spec == Init /\ [][Next]_vars

\* one run, over every shape of record
NextBatch == Steps \/ FetchOk(BatchPayloads)
SpecBatch == Init /\ [][NextBatch]_vars

----------------------------------------------------------------------------
\* Properties.  A run has succeeded when pc = "done": outFile then holds the
\* document it wrote.

Succeeded == pc = "done"
Document == outFile[1]
Upstream == Events(raw)

\* the record has a first venue
HasVenue(e) == e.emb = "obj" /\ e.venues = "list" /\ e.venueList # <<>>
\* the trimmed name of the first venue of a record that has one, "" when it has no name
FirstVenueName(e) ==
    IF e.venueList[1].name.t = "str" THEN strip(e.venueList[1].name.s) ELSE <<>>
\* the indices of the records that gave an output event
Kept == {origin[k] : k \in DOMAIN origin}

\* C1: after a successful run with a non-empty allowlist, every event of the output
\* document has a venueName that is in the allowlist, and no record whose first
\* venue's trimmed name is outside the allowlist has given an output event.
C1_OutputWithinAllowlist ==
    (Succeeded /\ allowlist # {}) =>
        /\ \A k \in DOMAIN Document.events : Document.events[k].venueName \in allowlist
        /\ \A j \in DOMAIN Upstream :
               (HasVenue(Upstream[j]) /\ FirstVenueName(Upstream[j]) \notin allowlist)
                   => j \notin Kept

C1_Witness ==
    /\ Succeeded
    /\ allowlist # {}
    /\ Document.events # <<>>
    /\ \E j \in DOMAIN Upstream :
           HasVenue(Upstream[j]) /\ FirstVenueName(Upstream[j]) \notin allowlist

\* C2, as stated: when the allowlist file is absent, the output document of a
\* successful run has as many events as the upstream response, one for each record.
C2_EveryUpstreamEventKept ==
    (Succeeded /\ allowFile.t = "absent") =>
        /\ Len(Document.events) = Len(Upstream)
        /\ Kept = DOMAIN Upstream

\* C2, amended: when the allowlist file is absent, the output document of a
\* successful run has one event for each upstream record that has a venue, and
\* none for the records that have no venue.
C2_EveryEventWithVenueKept ==
    (Succeeded /\ allowFile.t = "absent") =>
        /\ Kept = {j \in DOMAIN Upstream : HasVenue(Upstream[j])}
        /\ Len(Document.events) = Cardinality(Kept)

C2_Witness ==
    /\ Succeeded
    /\ allowFile.t = "absent"
    /\ Document.events # <<>>
    /\ \E j \in DOMAIN Upstream : ~HasVenue(Upstream[j])

\* C3, as stated: every event of the output document of a successful run has a
\* non-empty id and a non-empty slug.
C3_IdAndSlugNonEmpty ==
    Succeeded =>
        \A k \in DOMAIN Document.events :
            Document.events[k].id # <<>> /\ Document.events[k].slug # <<>>

\* C3, amended: every event of the output document of a successful run has a
\* non-empty slug; its id is the upstream id when that is a non-empty string, and
\* the empty string when the upstream id is absent, null or empty.
C3_SlugNonEmpty ==
    Succeeded =>
        \A k \in DOMAIN Document.events :
            LET id == Upstream[origin[k]].id
            IN  /\ Document.events[k].slug # <<>>
                /\ Document.events[k].id = IF id.t = "str" THEN id.s ELSE <<>>

C3_Witness ==
    /\ Succeeded
    /\ \E k \in DOMAIN Document.events :
           /\ Upstream[origin[k]].id.t \in {"absent", "null"}
           /\ Document.events[k].id = <<>>
           /\ Document.events[k].slug = DefaultSlug

\* C4: a record with absent or null fields never aborts the batch: once upstream
\* has answered with a list of events, no record ends the run with an exception.
C4_NoRecordAbortsBatch == pc = "failed" => failure # "AttributeError: record"

\* the API key is absent, or is empty once trimmed
KeyBlank ==
    environ.key.t # "str" \/ \A k \in DOMAIN environ.key.s : IsSpace(environ.key.s[k])

\* C5: with the API key absent or blank the run fails with the configuration error
\* at once: it never gets past the check, sends no HTTP request and leaves the
\* output file as it found it.
C5_BlankKeyFailsBeforeNetwork ==
    KeyBlank =>
        /\ pc \in {"start", "failed"}
        /\ pc = "failed" => failure = "RuntimeError: missing key"
        /\ httpRequests = 0
        /\ outFile = fileBefore

C5_Witness ==
    /\ environ.key.t = "str"
    /\ environ.key.s # <<>>
    /\ KeyBlank
    /\ pc = "failed"
    /\ fileBefore # <<>>

\* C6: a run sends at most one HTTP request, and when that request fails the run is
\* over, in the failure state, with the output file as it was when the run started.
C6_FailedFetchAbortsRun ==
    /\ httpRequests <= 1
    /\ failure \in FetchFailures =>
           /\ pc = "failed"
           /\ httpRequests = 1
           /\ outFile = fileBefore

C6_Witness ==
    /\ pc = "failed"
    /\ failure = "timeout"
    /\ fileBefore # <<>>
    /\ outFile = fileBefore

\* the date field of the record is there and is a non-empty string
Present(e, field) ==
    e.dates = "obj" /\ e.start = "obj" /\ e[field].t = "str" /\ e[field].s # <<>>

\* C7: dateDisplay is "localDate localTime" when both are non-empty, else localDate
\* when non-empty, else the UTC dateTime when non-empty, else the empty string.
C7_DateDisplayChain ==
    Succeeded =>
        \A k \in DOMAIN Document.events :
            LET e == Upstream[origin[k]]
            IN  Document.events[k].dateDisplay =
                    IF Present(e, "localDate") /\ Present(e, "localTime")
                    THEN e.localDate.s \o <<" ">> \o e.localTime.s
                    ELSE IF Present(e, "localDate") THEN e.localDate.s
                    ELSE IF Present(e, "dateTime") THEN e.dateTime.s
                    ELSE <<>>

C7_Witness ==
    /\ Succeeded
    /\ \E k \in DOMAIN Document.events :
           LET e == Upstream[origin[k]]
           IN  /\ ~Present(e, "localDate")
               /\ Present(e, "localTime")
               /\ Present(e, "dateTime")
               /\ Document.events[k].dateDisplay = UtcDateTime

\* the document but for its generatedAt
Body(document) == [market |-> document.market, count |-> document.count,
                   events |-> document.events]

\* C8: a successful run whose payload, allowlist and configuration are those of the
\* run that wrote the file it found writes the same document but for generatedAt,
\* whatever the files the two runs found.
C8_RerunIdempotent ==
    (Succeeded /\ inputsBefore = <<Inputs>>) =>
        /\ fileBefore # <<>>
        /\ Body(Document) = Body(fileBefore[1])

C8_Witness ==
    /\ Succeeded
    /\ inputsBefore = <<Inputs>>
    /\ Len(Document.events) = 2
    /\ Document.generatedAt # fileBefore[1].generatedAt

\* the response holds no event: no _embedded, no events in it, or an empty list
ZeroEvents(response) ==
    \/ response.emb = "absent"
    \/ response.emb = "obj" /\ response.events = "absent"
    \/ response.emb = "obj" /\ response.events = "list" /\ response.list = <<>>

\* C9: in the document of a successful run count is the length of events and the
\* market metadata is there; a response with zero events does not fail the run,
\* which writes count = 0 and no events.
C9_CountMatchesEvents ==
    /\ Succeeded =>
           /\ Document.count = Len(Document.events)
           /\ Document.market =
                  [label |-> "Indianapolis, IN metro", lat |-> 397684, lon |-> -861581,
                   radiusMiles |-> IF environ.radius.t = "absent" THEN 35 ELSE 50,
                   daysAhead |-> 180]
           /\ ZeroEvents(raw) => Document.count = 0 /\ Document.events = <<>>
    /\ (httpRequests = 1 /\ ZeroEvents(raw) /\ pc = "failed") => failure \in FetchFailures

C9_Witness ==
    /\ Succeeded
    /\ httpRequests = 1
    /\ raw.emb = "absent"
    /\ Document.count = 0
    /\ Document.events = <<>>

\* C10: the events of the output document come from upstream records in upstream
\* order, each record giving at most one event.
C10_UpstreamOrderPreserved ==
    Succeeded =>
        /\ Len(origin) = Len(Document.events)
        /\ \A k \in DOMAIN origin :
               /\ origin[k] \in DOMAIN Upstream
               /\ HasVenue(Upstream[origin[k]])
               /\ Document.events[k].id = Upstream[origin[k]].id.s
               /\ Document.events[k].venueName = FirstVenueName(Upstream[origin[k]])
        /\ \A j, k \in DOMAIN origin : j < k => origin[j] < origin[k]

C10_Witness ==
    /\ Succeeded
    /\ Len(Upstream) = 3
    /\ origin = <<1, 3>>
    /\ Document.events[1].id # Document.events[2].id

====
